---- MODULE Spec2Model ----
(***************************************************************************)
(* Model of radar_fusion_to_detected_object.launch.py.                     *)
(*                                                                         *)
(* The launch file is modelled as the Python interpreter runs it: the      *)
(* module-level statements (lines 1-10) are executed once when the file is *)
(* loaded, then generate_launch_description (lines 10-30) may be called    *)
(* any number of times, one statement per step.  Python lists are heap     *)
(* objects with identity, so that sharing between calls is something the   *)
(* model can exhibit.  The installation the file runs in (is Tk present,   *)
(* does launch type-check default_value, does launch_ros still take the    *)
(* node_executable keyword) is not fixed by the file and is chosen in      *)
(* Init.  The launch process that consumes a returned description is       *)
(* modelled after the description of it in the specification.              *)
(***************************************************************************)
EXTENDS Integers, Sequences, FiniteSets, TLC

VARIABLES
    env,               \* the installation the launch file is loaded in
    pc,                \* statement about to be executed
    globals,           \* names bound in the module's namespace
    heap,              \* list objects: heap[o] is the content of list o
    launch_arguments,  \* local of the running call (0: unbound)
    launch_nodes,      \* local of the running call (0: unbound)
    base,              \* number of objects that existed when the call began
    returned,          \* entity list object of each returned description
    snapshot,          \* content of each returned description on return
    raised,            \* exception that ended the load or the last call
    ncalls,            \* calls begun so far
    launched,          \* launches requested from the launch process
    procs              \* processes the launch process has spawned

vars == <<env, pc, globals, heap, launch_arguments, launch_nodes, base,
          returned, snapshot, raised, ncalls, launched, procs>>

\* Bounds of the exploration.
MaxCalls == 2
MaxExtra == 1

\* Every call allocates three lists (lines 12, 21 and 30).
MaxObj == 3 * MaxCalls

ArgName == "use_radar_fusion_to_detected_object"
PackageName == "radar_fusion_to_detected_object"
ExecutableName == "radar_fusion_to_detected_object_node"

\* A Python bool as a typed value.
PyBool(b) == [type |-> "bool", repr |-> IF b THEN "True" ELSE "False"]

TypeError == [kind |-> "TypeError"]

IsException(x) == x.kind = "TypeError"

NoCondition == [type |-> "None"]

IfCondition(name) == [type |-> "IfCondition", arg |-> name]

\* DeclareLaunchArgument(name, default_value=...): an installation that
\* type-checks the default takes text or a substitution only.
DeclareLaunchArgument(name, default_value) ==
    IF env.strictDefault /\ default_value.type \notin {"str", "Substitution"}
    THEN TypeError
    ELSE [kind |-> "DeclareLaunchArgument", name |-> name,
          default_value |-> default_value]

\* Node(**kw): the executable is taken from `executable`, or from the older
\* keyword `node_executable` where the installation still has it; no
\* `condition` keyword means no launch condition.
Node(kw) ==
    IF "node_executable" \in DOMAIN kw /\ ~env.nodeExecutableKw
    THEN TypeError
    ELSE [kind |-> "Node",
          package |-> kw.package,
          executable |-> IF "node_executable" \in DOMAIN kw
                         THEN kw.node_executable ELSE kw.executable,
          output |-> kw.output,
          condition |-> IF "condition" \in DOMAIN kw
                        THEN kw.condition ELSE NoCondition]

ArgumentCallTrue == DeclareLaunchArgument(ArgName, PyBool(TRUE))

\* Lines 14-17.
ArgumentCall == DeclareLaunchArgument(ArgName, PyBool(FALSE))

NodeKwargsLog ==
    [package |-> PackageName, node_executable |-> ExecutableName,
     output |-> "log"]

NodeKwargsConditional ==
    [package |-> PackageName, node_executable |-> ExecutableName,
     output |-> "screen", condition |-> IfCondition(ArgName)]

\* Lines 24-26.
NodeKwargs ==
    [package |-> PackageName, node_executable |-> ExecutableName,
     output |-> "screen"]

\* Lines 23-27.
NodeCall == Node(NodeKwargs)

\* A list display `[]` evaluated once and shared by all calls.
SharedList(h, slot) ==
    IF slot <= Len(h) THEN [heap |-> h, ref |-> slot]
    ELSE [heap |-> Append(h, <<>>), ref |-> Len(h) + 1]

\* The list display `[]` of lines 12 and 21: a new, empty list object.
NewList(h, slot) == [heap |-> Append(h, <<>>), ref |-> Len(h) + 1]

ConcatReversed(args, nodes) == nodes \o args

\* `launch_arguments + launch_nodes` (line 30): list concatenation.
Concat(args, nodes) == args \o nodes

CallPcs == {"L12", "L13", "L21", "L22", "L30"}

NextPcLoop(p) ==
    CASE p = "L12" -> "L13"
      [] p = "L13" -> "L21"
      [] p = "L21" -> "L22"
      [] p = "L22" -> "L21"
      [] p = "L30" -> "idle"

\* The statement executed after statement p of the function body.
NextPc(p) ==
    CASE p = "L12" -> "L13"
      [] p = "L13" -> "L21"
      [] p = "L21" -> "L22"
      [] p = "L22" -> "L30"
      [] p = "L30" -> "idle"

Init ==
    /\ env \in [tk : BOOLEAN, strictDefault : BOOLEAN,
                nodeExecutableKw : BOOLEAN]
    /\ pc = "import1"
    /\ globals = {}
    /\ heap = <<>>
    /\ launch_arguments = 0
    /\ launch_nodes = 0
    /\ base = 0
    /\ returned = <<>>
    /\ snapshot = <<>>
    /\ raised = "none"
    /\ ncalls = 0
    /\ launched = {}
    /\ procs = {}

\* Line 1: from tkinter.messagebox import NO.
ImportTkinter ==
    /\ pc = "import1"
    /\ IF env.tk
       THEN /\ globals' = globals \cup {"NO"}
            /\ pc' = "import2"
            /\ UNCHANGED raised
       ELSE /\ pc' = "failed"
            /\ raised' = "ImportError"
            /\ UNCHANGED globals
    /\ UNCHANGED <<env, heap, launch_arguments, launch_nodes, base, returned,
                   snapshot, ncalls, launched, procs>>

\* An import or def statement that binds `name` and goes on to `next`.
Bind(at, name, next) ==
    /\ pc = at
    /\ globals' = globals \cup {name}
    /\ pc' = next
    /\ UNCHANGED <<env, heap, launch_arguments, launch_nodes, base, returned,
                   snapshot, raised, ncalls, launched, procs>>

\* Line 2.
ImportTyping == Bind("import2", "List", "import4")

\* Line 4.
ImportLaunchRos == Bind("import4", "Node", "import6")

\* Line 6.
ImportLaunch == Bind("import6", "launch", "import7")

\* Line 7.
ImportLaunchActions == Bind("import7", "DeclareLaunchArgument", "def10")

\* Line 10: the def statement binds the function.
DefGenerate == Bind("def10", "generate_launch_description", "idle")

\* The launch process (or any caller) calls generate_launch_description().
Call ==
    /\ pc = "idle"
    /\ ncalls < MaxCalls
    /\ ncalls' = ncalls + 1
    /\ pc' = "L12"
    /\ base' = Len(heap)
    /\ raised' = "none"
    /\ UNCHANGED <<env, globals, heap, launch_arguments, launch_nodes,
                   returned, snapshot, launched, procs>>

\* An exception leaves the function: its frame is dropped.
Raise(exc) ==
    /\ raised' = exc.kind
    /\ pc' = "idle"
    /\ launch_arguments' = 0
    /\ launch_nodes' = 0

\* Line 12: launch_arguments = [].
L12 ==
    /\ pc = "L12"
    /\ Len(heap) < MaxObj
    /\ LET a == NewList(heap, 1) IN
         /\ heap' = a.heap
         /\ launch_arguments' = a.ref
    /\ pc' = NextPc("L12")
    /\ UNCHANGED <<env, globals, launch_nodes, base, returned, snapshot,
                   raised, ncalls, launched, procs>>

\* Lines 13-18: launch_arguments.append(DeclareLaunchArgument(...)).
L13 ==
    /\ pc = "L13"
    /\ LET e == ArgumentCall IN
         IF IsException(e)
         THEN /\ Raise(e)
              /\ UNCHANGED heap
         ELSE /\ heap' = [heap EXCEPT ![launch_arguments] = Append(@, e)]
              /\ pc' = NextPc("L13")
              /\ UNCHANGED <<launch_arguments, launch_nodes, raised>>
    /\ UNCHANGED <<env, globals, base, returned, snapshot, ncalls, launched,
                   procs>>

\* Line 21: launch_nodes = [].
L21 ==
    /\ pc = "L21"
    /\ Len(heap) < MaxObj
    /\ LET a == NewList(heap, 2) IN
         /\ heap' = a.heap
         /\ launch_nodes' = a.ref
    /\ pc' = NextPc("L21")
    /\ UNCHANGED <<env, globals, launch_arguments, base, returned, snapshot,
                   raised, ncalls, launched, procs>>

\* Lines 22-28: launch_nodes.append(Node(...)).
L22 ==
    /\ pc = "L22"
    /\ LET e == NodeCall IN
         IF IsException(e)
         THEN /\ Raise(e)
              /\ UNCHANGED heap
         ELSE /\ heap' = [heap EXCEPT ![launch_nodes] = Append(@, e)]
              /\ pc' = NextPc("L22")
              /\ UNCHANGED <<launch_arguments, launch_nodes, raised>>
    /\ UNCHANGED <<env, globals, base, returned, snapshot, ncalls, launched,
                   procs>>

\* Line 30: return launch.LaunchDescription(launch_arguments + launch_nodes).
\* The concatenation is a new list object, which the description holds.
L30 ==
    /\ pc = "L30"
    /\ Len(heap) < MaxObj
    /\ LET ents == Concat(heap[launch_arguments], heap[launch_nodes]) IN
         /\ heap' = Append(heap, ents)
         /\ returned' = Append(returned, Len(heap) + 1)
         /\ snapshot' = Append(snapshot, ents)
    /\ pc' = NextPc("L30")
    /\ launch_arguments' = 0
    /\ launch_nodes' = 0
    /\ UNCHANGED <<env, globals, base, raised, ncalls, launched, procs>>

\* One statement of the running call.
Step == L12 \/ L13 \/ L21 \/ L22 \/ L30

\* An entity that is neither of the two the builder creates.
ForeignEntry == [kind |-> "Other"]

\* The holder of returned description i adds an entity to it.
Mutate(i) ==
    /\ pc = "idle"
    /\ i \in DOMAIN returned
    /\ Len(heap[returned[i]]) < Len(snapshot[i]) + MaxExtra
    /\ heap' = [heap EXCEPT ![returned[i]] = Append(@, ForeignEntry)]
    /\ UNCHANGED <<env, pc, globals, launch_arguments, launch_nodes, base,
                   returned, snapshot, raised, ncalls, launched, procs>>

NoOverride == "<default>"

Overrides == {NoOverride, "true"}

\* Does the launch condition c hold under launch configuration cfg?
Holds(c, cfg) ==
    \/ c.type = "None"
    \/ /\ c.type = "IfCondition"
       /\ c.arg \in DOMAIN cfg
       /\ cfg[c.arg] \in {"true", "True", "1"}

RECURSIVE Visit(_, _, _, _)
\* The launch process visits the entities in order: an argument entry sets
\* the launch configuration (override, else default), a node entry whose
\* condition holds becomes a process.
Visit(ents, ov, cfg, out) ==
    IF ents = <<>> THEN out
    ELSE LET e == Head(ents) IN
         IF e.kind = "DeclareLaunchArgument"
         THEN Visit(Tail(ents), ov,
                    (e.name :> (IF ov = NoOverride THEN e.default_value.repr
                                ELSE ov)) @@ cfg,
                    out)
         ELSE IF e.kind = "Node" /\ Holds(e.condition, cfg)
         THEN Visit(Tail(ents), ov, cfg,
                    out \cup {[package |-> e.package,
                               executable |-> e.executable,
                               output |-> e.output]})
         ELSE Visit(Tail(ents), ov, cfg, out)

\* The launch process executes returned description i, the argument being
\* left at its default or overridden.
Launch(i, ov) ==
    /\ pc = "idle"
    /\ i \in DOMAIN returned
    /\ [desc |-> i, override |-> ov] \notin launched
    /\ launched' = launched \cup {[desc |-> i, override |-> ov]}
    /\ procs' = procs \cup
         {[desc |-> i, override |-> ov, package |-> p.package,
           executable |-> p.executable, output |-> p.output] :
             p \in Visit(heap[returned[i]], ov, <<>>, {})}
    /\ UNCHANGED <<env, pc, globals, heap, launch_arguments, launch_nodes,
                   base, returned, snapshot, raised, ncalls>>

Next ==
    \/ ImportTkinter
    \/ ImportTyping
    \/ ImportLaunchRos
    \/ ImportLaunch
    \/ ImportLaunchActions
    \/ DefGenerate
    \/ Call
    \/ Step
    \/ \E i \in 1..MaxCalls : Mutate(i)
    \/ \E i \in 1..MaxCalls : \E ov \in Overrides : Launch(i, ov)

Spec == Init /\ [][Next]_vars

\* The interpreter runs a statement of a call it has begun.
FairSpec == Spec /\ WF_vars(Step)

\* The entities description i holds now.
Entities(i) == heap[returned[i]]

\* C1: every returned description has exactly two entries, the
\* launch-argument entry at position 1 and the node entry at position 2.
ReturnsArgumentThenNode ==
    \A i \in DOMAIN snapshot :
        /\ Len(snapshot[i]) = 2
        /\ snapshot[i][1].kind = "DeclareLaunchArgument"
        /\ snapshot[i][2].kind = "Node"

\* A call has returned a description.
SomeCallReturned == pc = "idle" /\ Len(snapshot) >= 1 /\ raised = "none"

\* C2: the launch-argument entry of a returned description is named
\* use_radar_fusion_to_detected_object and its default is the boolean false.
ArgumentNameAndDefault ==
    \A i \in DOMAIN snapshot : \A k \in DOMAIN snapshot[i] :
        snapshot[i][k].kind = "DeclareLaunchArgument" =>
            /\ snapshot[i][k].name = "use_radar_fusion_to_detected_object"
            /\ snapshot[i][k].default_value.type = "bool"
            /\ snapshot[i][k].default_value.repr = "False"

\* A returned description holds a launch-argument entry.
ArgumentEntryReturned ==
    \E i \in DOMAIN snapshot : \E k \in DOMAIN snapshot[i] :
        snapshot[i][k].kind = "DeclareLaunchArgument"

\* C3: the node entry of a returned description has package
\* radar_fusion_to_detected_object, executable
\* radar_fusion_to_detected_object_node and output mode screen.
NodePackageExecutableOutput ==
    \A i \in DOMAIN snapshot : \A k \in DOMAIN snapshot[i] :
        snapshot[i][k].kind = "Node" =>
            /\ snapshot[i][k].package = "radar_fusion_to_detected_object"
            /\ snapshot[i][k].executable =
                   "radar_fusion_to_detected_object_node"
            /\ snapshot[i][k].output = "screen"

\* A returned description holds a node entry.
NodeEntryReturned ==
    \E i \in DOMAIN snapshot : \E k \in DOMAIN snapshot[i] :
        snapshot[i][k].kind = "Node"

\* C4: any two returned descriptions are structurally equal on return,
\* however many calls preceded them.
CallsReturnEqualDescriptions ==
    \A i, j \in DOMAIN snapshot : snapshot[i] = snapshot[j]

\* Two calls have returned.
TwoCallsReturned == Len(snapshot) >= 2

\* C5: neither loading the launch file nor a call of
\* generate_launch_description ends in an exception.
NeverRaises == raised = "none"

\* A step of a call writes no module-level name, spawns no process, and
\* changes no object that existed before the call began nor which
\* descriptions were returned earlier.
CallStepKeepsEnvironment ==
    pc \in CallPcs =>
        /\ globals' = globals
        /\ procs' = procs
        /\ launched' = launched
        /\ \A o \in 1..base : heap'[o] = heap[o]
        /\ \A i \in DOMAIN returned : returned'[i] = returned[i]

\* C6: a call has no side effects: the environment (module namespace,
\* processes, objects that existed before the call) is the same after every
\* step of a call as before it.
CallHasNoSideEffects == [][CallStepKeepsEnvironment]_vars

\* A call is about to return while objects and processes of earlier calls
\* exist.
CallRunsInPopulatedEnvironment ==
    pc = "L30" /\ base > 0 /\ procs # {} /\ globals # {}

\* A description is handed out only by the step that ends the call, with
\* both entries already in it.
HandsOutCompleteDescription ==
    Len(returned') > Len(returned) =>
        /\ pc = "L30"
        /\ pc' = "idle"
        /\ Len(returned') = Len(returned) + 1
        /\ Len(heap'[returned'[Len(returned')]]) = 2

\* C7: a call that has begun ends, and the description is complete at the
\* moment the call returns.
CallTerminatesComplete ==
    /\ (pc \in CallPcs) ~> (pc = "idle")
    /\ [][HandsOutCompleteDescription]_vars

\* A call has run to its return statement and returned.
CallRanToReturn ==
    pc = "idle" /\ ncalls >= 1 /\ Len(returned) = ncalls

\* A step that changes a returned description is a step of its holder and
\* changes no other returned description.
ChangesOneDescriptionOnly ==
    \A i \in DOMAIN returned :
        (heap'[returned[i]] # heap[returned[i]]) =>
            /\ pc = "idle"
            /\ \A j \in (DOMAIN returned) \ {i} :
                   heap'[returned[j]] = heap[returned[j]]

\* C8: a step that changes one returned description changes no other one
\* and is never a step of a call, and every call returns two entries none
\* of which was added by a holder of another description.
NoSharedMutableState ==
    /\ [][ChangesOneDescriptionOnly]_vars
    /\ [](\A i \in DOMAIN snapshot :
            /\ Len(snapshot[i]) = 2
            /\ \A k \in DOMAIN snapshot[i] : snapshot[i][k] # ForeignEntry)

\* The first description was modified by its holder, and a second one was
\* returned and is as returned.
FirstModifiedSecondIntact ==
    /\ Len(returned) >= 2
    /\ Entities(1) # snapshot[1]
    /\ Entities(2) = snapshot[2]

\* C9: the node entry carries no launch condition, and every launch of a
\* returned description spawns the node, whether the argument is left at
\* its default or overridden to true.
NodeIsUnconditional ==
    /\ \A i \in DOMAIN snapshot : \A k \in DOMAIN snapshot[i] :
           snapshot[i][k].kind = "Node" =>
               snapshot[i][k].condition = NoCondition
    /\ \A l \in launched :
           \E p \in procs :
               /\ p.desc = l.desc
               /\ p.override = l.override
               /\ p.package = PackageName
               /\ p.executable = ExecutableName

\* One description was launched with the default and with the override.
LaunchedWithDefaultAndOverride ==
    \E i \in DOMAIN returned :
        /\ [desc |-> i, override |-> NoOverride] \in launched
        /\ [desc |-> i, override |-> "true"] \in launched

====
